---- MODULE Spec2Model ----
(***************************************************************************)
(* Session lifecycle of the Tudor libfprint driver                         *)
(* (libfprint-tod/src/open.c): open(), close(), the READY receive          *)
(* completion, the host-exit callback and the shutdown timeout.            *)
(*                                                                         *)
(* All handlers run on the device's main loop, so every handler is one     *)
(* atomic step.  A handler is written as a function from the "world" (the  *)
(* FpiDeviceTudor fields, the USB handle, the libfprint action state, the  *)
(* outstanding receive, the armed timers, the running hosts and the        *)
(* observation log) to the world after the handler returned.               *)
(***************************************************************************)
EXTENDS Naturals, FiniteSets

\* Number of open() calls explored on one device.
MaxSessions == 3

Sessions == 1..MaxSessions

VARIABLES
    tdev,      \* FpiDeviceTudor fields used by open.c
    usb_open,  \* the GUsbDevice is open in the caller-owned layer
    dev,       \* libfprint's per-device action state
    recv,      \* the asynchronous receive started by recv_ipc_msg
    timers,    \* shutdown timeouts armed and not yet delivered (by session)
    hosts,     \* host ids spawned whose exit has not been reported yet
    sess,      \* number of open() calls so far = index of the current session
    log        \* per session: what the driver did (observation only)

vars == <<tdev, usb_open, dev, recv, timers, hosts, sess, log>>

\* The state as one value, and its write-back.
World ==
    [tdev |-> tdev, usb_open |-> usb_open, dev |-> dev, recv |-> recv,
     timers |-> timers, hosts |-> hosts, sess |-> sess, log |-> log]

Apply(w) ==
    /\ tdev' = w.tdev
    /\ usb_open' = w.usb_open
    /\ dev' = w.dev
    /\ recv' = w.recv
    /\ timers' = w.timers
    /\ hosts' = w.hosts
    /\ sess' = w.sess
    /\ log' = w.log

NoLog ==
    [open_res |-> "none", open_done |-> 0,
     close_called |-> FALSE, close_res |-> "none", close_done |-> 0,
     close_by |-> "none", close_timer |-> 0,
     disposals |-> 0, kills |-> {}, spawned |-> 0,
     init_sends |-> 0, shutdown_sends |-> 0, readys |-> 0,
     recv_res |-> "none", cancels |-> 0, usb_closed |-> FALSE,
     shutdown_res |-> "none", sent_dead |-> FALSE, stale_exit |-> FALSE]

\* Observation only: which path completed the close() of the current session.
Via(w, path) == [w EXCEPT !.log[w.sess].close_by = path]

------------------------------------------------------------------------------
\* libfprint / GLib / GUsb primitives used by open.c

g_usb_device_open(w) == [w EXCEPT !.usb_open = TRUE]

g_usb_device_close(w) ==
    [w EXCEPT !.usb_open = FALSE, !.log[w.sess].usb_closed = TRUE]

\* The token is shared with the receive that was started with it.
g_cancellable_cancel(w) ==
    [w EXCEPT !.tdev.ipc_cancel = "cancelled",
              !.recv = IF @ = "pending" THEN "cancelled" ELSE @,
              !.log[w.sess].cancels = @ + 1]

fpi_device_open_complete(w, error) ==
    [w EXCEPT !.dev.current_action = IF @ = "open" THEN "none" ELSE @,
              !.dev.is_open = IF w.dev.current_action = "open"
                              THEN error = "ok" ELSE @,
              !.log[w.sess].open_res = error,
              !.log[w.sess].open_done = @ + 1]

fpi_device_close_complete(w, error) ==
    [w EXCEPT !.dev.current_action = IF @ = "close" THEN "none" ELSE @,
              !.dev.is_open = IF w.dev.current_action = "close"
                              THEN FALSE ELSE @,
              !.log[w.sess].close_res = error,
              !.log[w.sess].close_done = @ + 1]

fpi_device_add_timeout(w) == [w EXCEPT !.timers = @ \cup {w.sess}]

\* ipc.h.  The launcher is asked to reclaim the host; the request is
\* best effort and its result is only logged.
kill_host_process(w) ==
    [w EXCEPT !.log[w.sess].kills = @ \cup {w.tdev.host_id}]

\* A successful spawn: the launcher hands out a fresh host id, which is
\* registered for exit tracking; the new host has not been reported dead.
start_host_process(w) ==
    [w EXCEPT !.tdev.host_id = w.sess,
              !.tdev.host_has_id = TRUE,
              !.tdev.host_dead = FALSE,
              !.hosts = @ \cup {w.sess},
              !.log[w.sess].spawned = w.sess]

\* A send attempt; whether it succeeds is an input of the caller's action.
\* sent_dead observes a send made while host_dead is set.
send_ipc_msg(w, type) ==
    IF type = "INIT"
    THEN [w EXCEPT !.log[w.sess].init_sends = @ + 1,
                   !.log[w.sess].sent_dead = @ \/ w.tdev.host_dead]
    ELSE [w EXCEPT !.log[w.sess].shutdown_sends = @ + 1,
                   !.log[w.sess].sent_dead = @ \/ w.tdev.host_dead]

recv_ipc_msg(w) == [w EXCEPT !.recv = "pending"]

------------------------------------------------------------------------------
\* open.c

\* Variant: disposal leaves in_shutdown as it is.
dispose_dev_keepflag(w) ==
    LET k == IF w.tdev.host_has_id THEN kill_host_process(w) ELSE w
    IN  [k EXCEPT !.tdev.ipc_cancel = "null",
                  !.tdev.ipc_socket = FALSE,
                  !.tdev.dbus_con = FALSE,
                  !.log[w.sess].disposals = @ + 1]

\* Variant: the launcher is not told to reclaim the host.
dispose_dev_nokill(w) ==
    [w EXCEPT !.tdev.ipc_cancel = "null",
              !.tdev.ipc_socket = FALSE,
              !.tdev.dbus_con = FALSE,
              !.tdev.in_shutdown = FALSE,
              !.log[w.sess].disposals = @ + 1]

dispose_dev(w) ==
    LET k == IF w.tdev.host_has_id THEN kill_host_process(w) ELSE w
    IN  [k EXCEPT !.tdev.ipc_cancel = "null",
                  !.tdev.ipc_socket = FALSE,
                  !.tdev.dbus_con = FALSE,
                  !.tdev.in_shutdown = FALSE,
                  !.log[w.sess].disposals = @ + 1]

\* Variant: the guard does not compare host ids.
host_exit_cb_noidcheck(w, host_id) ==
    IF w.tdev.host_dead
    THEN w
    ELSE LET w1 == [w EXCEPT !.tdev.host_dead = TRUE]
             w2 == IF w1.tdev.ipc_cancel # "null"
                   THEN g_cancellable_cancel(w1) ELSE w1
         IN  IF w2.tdev.in_shutdown
             THEN Via(fpi_device_close_complete(
                          g_usb_device_open(dispose_dev(w2)), "ok"),
                      "host_exit")
             ELSE w2

\* Variant: the guard returns only when both tests hold.
host_exit_cb_andguard(w, host_id) ==
    IF w.tdev.host_dead /\ w.tdev.host_id # host_id
    THEN w
    ELSE LET w1 == [w EXCEPT !.tdev.host_dead = TRUE]
             w2 == IF w1.tdev.ipc_cancel # "null"
                   THEN g_cancellable_cancel(w1) ELSE w1
         IN  IF w2.tdev.in_shutdown
             THEN Via(fpi_device_close_complete(
                          g_usb_device_open(dispose_dev(w2)), "ok"),
                      "host_exit")
             ELSE w2

\* Variant: the death callback does not trigger the cancellation token.
host_exit_cb_nocancel(w, host_id) ==
    IF w.tdev.host_dead \/ w.tdev.host_id # host_id
    THEN w
    ELSE LET w2 == [w EXCEPT !.tdev.host_dead = TRUE]
         IN  IF w2.tdev.in_shutdown
             THEN Via(fpi_device_close_complete(
                          g_usb_device_open(dispose_dev(w2)), "ok"),
                      "host_exit")
             ELSE w2

\* Variant: the death callback releases the socket as soon as the host is
\* dead.
host_exit_cb_dropsocket(w, host_id) ==
    IF w.tdev.host_dead \/ w.tdev.host_id # host_id
    THEN w
    ELSE LET w1 == [w EXCEPT !.tdev.host_dead = TRUE,
                             !.tdev.ipc_socket = FALSE]
             w2 == IF w1.tdev.ipc_cancel # "null"
                   THEN g_cancellable_cancel(w1) ELSE w1
         IN  IF w2.tdev.in_shutdown
             THEN Via(fpi_device_close_complete(
                          g_usb_device_open(dispose_dev(w2)), "ok"),
                      "host_exit")
             ELSE w2

\* Variant: the death callback takes the terminal action without testing
\* in_shutdown.
host_exit_cb_terminal(w, host_id) ==
    IF w.tdev.host_dead \/ w.tdev.host_id # host_id
    THEN w
    ELSE LET w1 == [w EXCEPT !.tdev.host_dead = TRUE]
             w2 == IF w1.tdev.ipc_cancel # "null"
                   THEN g_cancellable_cancel(w1) ELSE w1
         IN  Via(fpi_device_close_complete(
                     g_usb_device_open(dispose_dev(w2)), "ok"),
                 "host_exit")

host_exit_cb(w, host_id) ==
    IF w.tdev.host_dead \/ w.tdev.host_id # host_id
    THEN w
    ELSE LET w1 == [w EXCEPT !.tdev.host_dead = TRUE]
             w2 == IF w1.tdev.ipc_cancel # "null"
                   THEN g_cancellable_cancel(w1) ELSE w1
         IN  IF w2.tdev.in_shutdown
             THEN Via(fpi_device_close_complete(
                          g_usb_device_open(dispose_dev(w2)), "ok"),
                      "host_exit")
             ELSE w2

\* Variant: the error path of the receive callback forgets the disposal.
open_recv_error_nodispose(w, error) ==
    fpi_device_open_complete(g_usb_device_open(w), error)

\* Variant: the error path of the receive callback forgets the USB reopen.
open_recv_error_noreopen(w, error) ==
    fpi_device_open_complete(dispose_dev(w), error)

\* The error: label of open_recv_cb.
open_recv_error(w, error) ==
    fpi_device_open_complete(dispose_dev(g_usb_device_open(w)), error)

\* Variant: the READY case falls through into the default case.
open_recv_cb_fallthrough(w, res) ==
    IF res \in {"recv_err", "cancelled"}
    THEN open_recv_error(w, res)
    ELSE IF res = "READY"
         THEN open_recv_error(
                  fpi_device_open_complete(
                      [w EXCEPT !.log[w.sess].readys = @ + 1], "ok"),
                  "proto")
         ELSE open_recv_error(w, "proto")

\* res: what the receive task propagates (a message type, or an error).
open_recv_cb(w, res) ==
    IF res \in {"recv_err", "cancelled"}
    THEN open_recv_error(w, res)
    ELSE IF res = "READY"
         THEN fpi_device_open_complete(
                  [w EXCEPT !.log[w.sess].readys = @ + 1], "ok")
         ELSE open_recv_error(w, "proto")

OpenOutcomes == {"dbus_fail", "launch_fail", "socket_fail", "send_fail", "sent"}

\* Variant: the INIT send failure path forgets the USB reopen.
fpi_device_tudor_open_noreopen(w, outcome) ==
    LET w1 == [w EXCEPT !.tdev.dbus_con = (outcome # "dbus_fail")]
        w2 == [w1 EXCEPT !.tdev.host_has_id = FALSE]
        w3 == start_host_process(w2)
        w4 == [w3 EXCEPT !.tdev.ipc_socket = (outcome # "socket_fail")]
        w5 == g_usb_device_close([w4 EXCEPT !.tdev.ipc_cancel = "armed"])
        w6 == send_ipc_msg(w5, "INIT")
    IN  IF outcome = "dbus_fail"
        THEN fpi_device_open_complete(dispose_dev(w1), "dbus")
        ELSE IF outcome = "launch_fail"
        THEN fpi_device_open_complete(dispose_dev(w2), "launch")
        ELSE IF outcome = "socket_fail"
        THEN fpi_device_open_complete(dispose_dev(w4), "socket")
        ELSE IF outcome = "send_fail"
        THEN fpi_device_open_complete(dispose_dev(w6), "transport")
        ELSE recv_ipc_msg(w6)

\* outcome: the first step of open() that fails, or "sent".
fpi_device_tudor_open(w, outcome) ==
    LET w1 == [w EXCEPT !.tdev.dbus_con = (outcome # "dbus_fail")]
        w2 == [w1 EXCEPT !.tdev.host_has_id = FALSE]
        w3 == start_host_process(w2)
        w4 == [w3 EXCEPT !.tdev.ipc_socket = (outcome # "socket_fail")]
        w5 == g_usb_device_close([w4 EXCEPT !.tdev.ipc_cancel = "armed"])
        w6 == send_ipc_msg(w5, "INIT")
    IN  IF outcome = "dbus_fail"
        THEN fpi_device_open_complete(dispose_dev(w1), "dbus")
        ELSE IF outcome = "launch_fail"
        THEN fpi_device_open_complete(dispose_dev(w2), "launch")
        ELSE IF outcome = "socket_fail"
        THEN fpi_device_open_complete(dispose_dev(w4), "socket")
        ELSE IF outcome = "send_fail"
        THEN fpi_device_open_complete(
                 g_usb_device_open(dispose_dev(w6)), "transport")
        ELSE recv_ipc_msg(w6)

\* Variant: the timeout does not test in_shutdown.
close_timeout_cb_unguarded(w) ==
    Via(fpi_device_close_complete(
            g_usb_device_open(dispose_dev(w)), "ok"),
        "timeout")

close_timeout_cb(w) ==
    IF w.tdev.in_shutdown
    THEN Via(fpi_device_close_complete(
                 g_usb_device_open(dispose_dev(w)), "ok"),
             "timeout")
    ELSE w

\* Variant: close() does not test host_dead.
fpi_device_tudor_close_nodeadcheck(w, send_ok) ==
    LET w1 == send_ipc_msg([w EXCEPT !.tdev.in_shutdown = TRUE], "SHUTDOWN")
    IN  IF ~send_ok
        THEN Via(fpi_device_close_complete(
                     g_usb_device_open(dispose_dev(w1)), "transport"),
                 "send_fail")
        ELSE fpi_device_add_timeout(w1)

\* Variant: close() arms the shutdown timeout before it sends SHUTDOWN.
fpi_device_tudor_close_armfirst(w, send_ok) ==
    IF w.tdev.host_dead
    THEN Via(fpi_device_close_complete(
                 g_usb_device_open(dispose_dev(w)), "ok"),
             "dead_entry")
    ELSE LET w1 == send_ipc_msg(
                       fpi_device_add_timeout(
                           [w EXCEPT !.tdev.in_shutdown = TRUE]),
                       "SHUTDOWN")
         IN  IF ~send_ok
             THEN Via(fpi_device_close_complete(
                          g_usb_device_open(dispose_dev(w1)), "transport"),
                      "send_fail")
             ELSE w1

\* Variant: close() does not arm the shutdown timeout.
fpi_device_tudor_close_notimeout(w, send_ok) ==
    IF w.tdev.host_dead
    THEN Via(fpi_device_close_complete(
                 g_usb_device_open(dispose_dev(w)), "ok"),
             "dead_entry")
    ELSE LET w1 == send_ipc_msg([w EXCEPT !.tdev.in_shutdown = TRUE],
                                "SHUTDOWN")
         IN  IF ~send_ok
             THEN Via(fpi_device_close_complete(
                          g_usb_device_open(dispose_dev(w1)), "transport"),
                      "send_fail")
             ELSE w1

\* send_ok: whether the SHUTDOWN send succeeds.
fpi_device_tudor_close(w, send_ok) ==
    IF w.tdev.host_dead
    THEN Via(fpi_device_close_complete(
                 g_usb_device_open(dispose_dev(w)), "ok"),
             "dead_entry")
    ELSE LET w1 == send_ipc_msg([w EXCEPT !.tdev.in_shutdown = TRUE],
                                "SHUTDOWN")
         IN  IF ~send_ok
             THEN Via(fpi_device_close_complete(
                          g_usb_device_open(dispose_dev(w1)), "transport"),
                      "send_fail")
             ELSE fpi_device_add_timeout(w1)

------------------------------------------------------------------------------
\* The state machine

Init ==
    /\ tdev = [dbus_con |-> FALSE, ipc_socket |-> FALSE, ipc_cancel |-> "null",
               host_has_id |-> FALSE, host_id |-> 0, host_dead |-> FALSE,
               in_shutdown |-> FALSE]
    /\ usb_open = TRUE
    /\ dev = [current_action |-> "none", is_open |-> FALSE]
    /\ recv = "none"
    /\ timers = {}
    /\ hosts = {}
    /\ sess = 0
    /\ log = [s \in Sessions |-> NoLog]

\* fp_device_open(): the caller opens a closed, idle device.
Open ==
    /\ dev.current_action = "none"
    /\ ~dev.is_open
    /\ sess < MaxSessions
    /\ \E outcome \in OpenOutcomes :
         Apply(fpi_device_tudor_open(
                   [World EXCEPT !.sess = @ + 1,
                                 !.dev.current_action = "open"],
                   outcome))

\* The receive task completes: cancelled if the token was triggered,
\* otherwise with a message or an I/O error.
OpenRecv ==
    /\ recv # "none"
    /\ \E res \in (IF recv = "cancelled" THEN {"cancelled"}
                   ELSE {"READY", "OTHER", "recv_err"}) :
         Apply(open_recv_cb([World EXCEPT !.recv = "none",
                                          !.log[sess].recv_res = res],
                            res))

\* fp_device_close(): the caller closes an open, idle device.
Close ==
    /\ dev.current_action = "none"
    /\ dev.is_open
    /\ \E send_ok \in BOOLEAN :
         LET w0 == [World EXCEPT !.dev.current_action = "close",
                                 !.log[sess].close_called = TRUE]
             w1 == fpi_device_tudor_close(w0, send_ok)
         IN  Apply(IF w1.log[sess].shutdown_sends
                          # w0.log[sess].shutdown_sends
                   THEN [w1 EXCEPT !.log[sess].shutdown_res =
                                       IF send_ok THEN "ok" ELSE "fail"]
                   ELSE w1)

\* The process monitor reports the exit of a spawned host, once.
\* stale_exit observes a report for a host of an earlier session.
HostExit ==
    \E h \in hosts :
        Apply(host_exit_cb([World EXCEPT !.hosts = @ \ {h},
                                         !.log[sess].stale_exit =
                                             @ \/ h # sess],
                           h))

\* An armed shutdown timeout is delivered, once.
CloseTimeout ==
    \E t \in timers :
        LET w0 == [World EXCEPT !.timers = @ \ {t}]
            w1 == close_timeout_cb(w0)
        IN  Apply(IF w1.log # w0.log
                  THEN [w1 EXCEPT !.log[w1.sess].close_timer = t]
                  ELSE w1)

Next == Open \/ OpenRecv \/ Close \/ HostExit \/ CloseTimeout

Spec == Init /\ [][Next]_vars

\* The main loop delivers every armed timeout.
FairSpec == Spec /\ WF_vars(CloseTimeout)

------------------------------------------------------------------------------
\* Properties

OpenPending(s) == s = sess /\ dev.current_action = "open"
ClosePending(s) == s = sess /\ dev.current_action = "close"

\* C1: over any interleaving of open(), close(), the receive completion, the
\* host-exit callback and the shutdown timeout, across several sessions, every
\* open() call has been completed exactly once and every close() call has been
\* completed exactly once as soon as it is no longer pending; nothing is
\* completed twice and nothing is completed while no call is pending.
C1_CompleteExactlyOnce ==
    \A s \in Sessions :
        /\ log[s].open_done =
               IF s <= sess /\ ~OpenPending(s) THEN 1 ELSE 0
        /\ log[s].close_done =
               IF log[s].close_called /\ ~ClosePending(s) THEN 1 ELSE 0

\* Two sessions were closed, the first by the death of its host, the second
\* by the timeout that the first close() had armed.
C1_Witness ==
    /\ sess >= 2
    /\ log[1].close_by = "host_exit"
    /\ log[2].close_by = "timeout"
    /\ log[2].close_timer = 1
    /\ dev.current_action = "none"

\* A step that delivers a host-exit notification.
HostExitStep == \E h \in hosts : hosts' = hosts \ {h}

\* No open()/close() is completed and nothing is disposed in this step.
Quiet ==
    \A s \in Sessions :
        /\ log'[s].open_done = log[s].open_done
        /\ log'[s].close_done = log[s].close_done
        /\ log'[s].disposals = log[s].disposals

\* C2: an open() succeeds only by consuming READY, and an open() whose receive
\* yielded READY has consumed exactly one READY and has been completed exactly
\* once, successfully; a host-exit notification that arrives while the
\* device is open and no close() is pending completes and disposes nothing.
C2_SuccessfulOpenOnce ==
    /\ [](\A s \in Sessions :
            /\ log[s].open_res = "ok" => log[s].recv_res = "READY"
            /\ log[s].recv_res = "READY" =>
                  /\ log[s].open_res = "ok"
                  /\ log[s].readys = 1
                  /\ log[s].open_done = 1)
    /\ [][(HostExitStep /\ dev.is_open /\ dev.current_action = "none")
              => (Quiet /\ dev' = dev /\ usb_open' = usb_open)]_vars

\* The device is open, idle, and the host of the session has been reported
\* dead after READY.
C2_Witness ==
    /\ dev.is_open
    /\ dev.current_action = "none"
    /\ log[sess].open_res = "ok"
    /\ tdev.host_dead
    /\ tdev.host_id = sess

\* C3: when the receive of the open sequence yields a message other than
\* READY, open() is completed with a protocol error, the USB handle is open
\* again, disposal has run once with a kill request for the spawned host, and
\* the session is never open.
C3_UnexpectedMessage ==
    \A s \in Sessions :
        log[s].recv_res = "OTHER" =>
            /\ log[s].open_res = "proto"
            /\ log[s].open_done = 1
            /\ log[s].disposals = 1
            /\ log[s].spawned = s
            /\ s \in log[s].kills
            /\ log[s].readys = 0
            /\ ~log[s].close_called
            /\ s = sess => (usb_open /\ ~dev.is_open /\ ~tdev.ipc_socket)

C3_Witness ==
    /\ sess >= 1
    /\ log[sess].recv_res = "OTHER"
    /\ log[sess].open_res = "proto"
    /\ dev.current_action = "none"

\* A step that delivers the shutdown timeout armed by the close() of session t.
TimeoutStep(t) == t \in timers /\ timers' = timers \ {t}

C5_TimeoutCompletesClose ==
    /\ [](\A s \in Sessions :
            log[s].close_by = "timeout" =>
                /\ log[s].close_res = "ok"
                /\ log[s].close_done = 1
                /\ log[s].shutdown_sends = 1
                /\ log[s].disposals = 1)
    /\ (dev.current_action = "close") ~> (dev.current_action = "none")

\* The close() was completed by its own timeout while the exit of the host
\* has still not been reported.
C5_Witness ==
    /\ sess >= 1
    /\ log[sess].close_by = "timeout"
    /\ log[sess].close_timer = sess
    /\ sess \in hosts
    /\ ~tdev.host_dead

\* A step in which close() is called and returns.
CloseStep ==
    /\ sess >= 1
    /\ sess' = sess
    /\ ~log[sess].close_called
    /\ log'[sess].close_called

\* C6: a close() that finds host_dead set sends no SHUTDOWN, arms no timeout,
\* leaves in_shutdown clear, and is completed successfully inside the call
\* after one disposal and a reopen of the USB handle.
C6_DeadOnEntry ==
    [][(CloseStep /\ tdev.host_dead) =>
          /\ log'[sess].shutdown_sends = 0
          /\ timers' = timers
          /\ ~tdev'.in_shutdown
          /\ log'[sess].close_done = 1
          /\ log'[sess].close_res = "ok"
          /\ log'[sess].close_by = "dead_entry"
          /\ log'[sess].disposals = log[sess].disposals + 1
          /\ dev'.current_action = "none"
          /\ ~dev'.is_open
          /\ usb_open']_vars

C6_Witness ==
    /\ sess >= 1
    /\ log[sess].close_by = "dead_entry"
    /\ log[sess].close_done = 1
    /\ log[sess].shutdown_sends = 0

\* C7: when the spawn succeeds and the INIT send fails, open() is completed
\* with the transport error, no receive is started, the USB handle is open
\* again, and disposal has run once with a kill request for the spawned host.
C7_InitSendFails ==
    \A s \in Sessions :
        log[s].open_res = "transport" =>
            /\ log[s].open_done = 1
            /\ log[s].init_sends = 1
            /\ log[s].recv_res = "none"
            /\ log[s].disposals = 1
            /\ log[s].spawned = s
            /\ s \in log[s].kills
            /\ s = sess => (usb_open /\ recv = "none" /\ ~dev.is_open)

C7_Witness ==
    /\ sess >= 1
    /\ log[sess].open_res = "transport"
    /\ log[sess].usb_closed
    /\ usb_open

\* C8: whenever no session is in progress (open() completed with an error, or
\* close() completed, on any path) the USB device is open in the caller-owned
\* layer; it is closed only after the hand-off in open() and before the
\* completion that ends the session.
C8_UsbHandedBack ==
    /\ (dev.current_action = "none" /\ ~dev.is_open) => usb_open
    /\ ~usb_open =>
          /\ sess >= 1
          /\ log[sess].usb_closed
          /\ log[sess].init_sends = 1
          /\ log[sess].close_done = 0
          /\ log[sess].open_res \in {"none", "ok"}

\* Three sessions were torn down on three different paths.
C8_Witness ==
    /\ sess >= 3
    /\ log[1].close_by = "send_fail"
    /\ log[2].open_res = "cancelled"
    /\ log[3].close_by = "host_exit"
    /\ dev.current_action = "none"
    /\ usb_open

\* The session has ended: its open() failed or its close() was completed.
Ended(s) ==
    /\ s <= sess
    /\ \/ log[s].open_res \notin {"none", "ok"}
       \/ log[s].close_done >= 1

\* C9: dispose_dev has run exactly once for every session that has ended, and
\* never for a session that has not ended; late notifications and late
\* timeouts do not run it again.
C9_DisposeOncePerSession ==
    \A s \in Sessions :
        log[s].disposals = IF Ended(s) THEN 1 ELSE 0

\* The session was closed by the timeout and the exit of its host was
\* reported afterwards, before any new open().
C9_Witness ==
    /\ sess >= 1
    /\ log[sess].close_by = "timeout"
    /\ tdev.host_dead
    /\ tdev.host_id = sess
    /\ sess \notin hosts
    /\ log[sess].disposals = 1

\* C10: after a close() has been completed by the exit of the session's host,
\* the shutdown timeout armed by that close() is not delivered.
C10_NoTimeoutAfterExit ==
    [][\A t \in Sessions :
          (log[t].open_res = "ok" /\ log[t].close_by = "host_exit")
              => ~TimeoutStep(t)]_vars

\* C11: a close() that finds the host alive and whose SHUTDOWN send fails has
\* disposed once and has been completed with the send error inside the call,
\* with in_shutdown clear and no shutdown timeout armed; a shutdown timeout is
\* armed only by a close() whose SHUTDOWN send succeeded.
C11_ShutdownSendFails ==
    \A s \in Sessions :
        /\ log[s].shutdown_res = "fail" =>
              /\ log[s].close_res = "transport"
              /\ log[s].close_done = 1
              /\ log[s].close_by = "send_fail"
              /\ log[s].disposals = 1
              /\ s \notin timers
              /\ s = sess => (~tdev.in_shutdown /\ usb_open /\ ~dev.is_open
                              /\ dev.current_action = "none")
        /\ s \in timers => log[s].shutdown_res = "ok"

\* The send of the second close() failed while the timeout armed by the first
\* close() is still pending.
C11_Witness ==
    /\ sess >= 2
    /\ log[sess].shutdown_res = "fail"
    /\ log[sess].close_res = "transport"
    /\ timers # {}

C13_DeathOutsideShutdown ==
    [][/\ (HostExitStep /\ ~tdev.in_shutdown) =>
             /\ Quiet
             /\ usb_open' = usb_open
             /\ dev' = dev
             /\ timers' = timers
             /\ tdev'.host_id = tdev.host_id
             /\ tdev'.host_has_id = tdev.host_has_id
             /\ tdev'.ipc_socket = tdev.ipc_socket
             /\ tdev'.dbus_con = tdev.dbus_con
             /\ ~tdev'.in_shutdown
       /\ (HostExitStep /\ ~Quiet) => tdev.in_shutdown]_vars

\* The host died while the device was open and idle; the session still holds
\* its socket and its control channel, and the USB handle is still handed off.
C13_Witness ==
    /\ dev.is_open
    /\ dev.current_action = "none"
    /\ tdev.host_dead
    /\ tdev.ipc_socket
    /\ tdev.dbus_con
    /\ ~usb_open

\* C14: a host-exit notification whose host id differs from the session's
\* host_id, or that arrives while host_dead is already set, changes nothing:
\* no flag, no cancellation, no disposal, no completion.
C14_StaleExitIgnored ==
    [][\A h \in hosts :
          (hosts' = hosts \ {h} /\ (h # tdev.host_id \/ tdev.host_dead)) =>
              /\ tdev' = tdev
              /\ recv' = recv
              /\ usb_open' = usb_open
              /\ dev' = dev
              /\ timers' = timers
              /\ Quiet
              /\ \A s \in Sessions : log'[s].cancels = log[s].cancels]_vars

\* The exit of an earlier session's host was reported during the current
\* session, whose own host is alive and whose receive is still outstanding.
C14_Witness ==
    /\ sess >= 2
    /\ log[sess].stale_exit
    /\ tdev.host_id = sess
    /\ sess \in hosts
    /\ ~tdev.host_dead
    /\ recv = "pending"

CancelStep == \E s \in Sessions : log'[s].cancels # log[s].cancels

\* C16 as claimed: the cancellation token is triggered only while a receive
\* is outstanding, and at most once per session.
C16_CancelOnlyWithReceive ==
    /\ [](\A s \in Sessions : log[s].cancels <= 1)
    /\ [][CancelStep => recv = "pending"]_vars

\* C16 as amended: the token is triggered only by the host-exit callback, at
\* most once per session, exactly when the session's host is first reported
\* dead while the session holds the token, whether or not a receive is
\* outstanding; an outstanding receive is cancelled by it.
C16_CancelOnHostDeath ==
    /\ [](\A s \in Sessions : log[s].cancels <= 1)
    /\ [][/\ CancelStep =>
                /\ HostExitStep
                /\ ~tdev.host_dead
                /\ tdev'.host_dead
                /\ tdev.ipc_cancel = "armed"
                /\ log'[sess].cancels = 1
                /\ recv' # "pending"
          /\ (HostExitStep /\ ~tdev.host_dead /\ tdev'.host_dead
                /\ tdev.ipc_cancel # "null") => CancelStep]_vars

\* The token was triggered while the device was open, after READY had been
\* consumed.
C16_Witness ==
    /\ dev.is_open
    /\ log[sess].recv_res = "READY"
    /\ log[sess].cancels = 1
    /\ tdev.ipc_cancel = "cancelled"
    /\ recv = "none"

\* C17: an open() that fails before a host was spawned for the session (no
\* control channel, or the spawn fails) has disposed once, has been completed
\* with the error, has never closed the USB handle, and its disposal has made
\* no kill request to the launcher, also after an earlier session.
C17_NoKillBeforeSpawn ==
    \A s \in Sessions :
        log[s].open_res \in {"dbus", "launch"} =>
            /\ log[s].open_done = 1
            /\ log[s].disposals = 1
            /\ log[s].spawned = 0
            /\ ~log[s].usb_closed
            /\ log[s].kills = {}

\* C18: in_shutdown is set only while a close() that sent SHUTDOWN
\* successfully is pending, with the transport, the cancellation token and
\* the control channel still held; after every disposal in_shutdown is clear
\* and the three references are gone.
C18_InShutdownOnlyWhileClosing ==
    /\ [](tdev.in_shutdown =>
            /\ dev.current_action = "close"
            /\ log[sess].shutdown_res = "ok"
            /\ log[sess].close_done = 0
            /\ tdev.ipc_socket
            /\ tdev.ipc_cancel # "null"
            /\ tdev.dbus_con)
    /\ [][(\E s \in Sessions : log'[s].disposals # log[s].disposals) =>
              /\ ~tdev'.in_shutdown
              /\ ~tdev'.ipc_socket
              /\ tdev'.ipc_cancel = "null"
              /\ ~tdev'.dbus_con]_vars

\* The second close() is waiting after a successful SHUTDOWN send, the first
\* session having been disposed.
C18_Witness ==
    /\ sess >= 2
    /\ tdev.in_shutdown
    /\ log[1].disposals = 1
    /\ log[sess].shutdown_res = "ok"
    /\ sess \in timers

====
